---- MODULE Spec2Model ----
(***************************************************************************)
(* Course Module Loader (Obsidian plugin): CourseMaterialPlugin of         *)
(* src/main.ts.  The model covers ensureFolderExists and downloadAndUnzip, *)
(* the vault they act on and the archive they iterate over.                *)
(*                                                                         *)
(* A path is a sequence of tokens.  "/" and "\\" are the two separator     *)
(* characters; every other token is a run of characters that holds no      *)
(* separator ("a", "..", "__MACOSX", ".DS_Store").                         *)
(*                                                                         *)
(* The vault (app.vault), requestUrl and JSZip are the environment.  The   *)
(* vault is a map from normalized paths to files and folders;              *)
(* getAbstractFileByPath looks a path up as given, createFolder and        *)
(* createBinary normalize theirs, reject a path that is taken, and may     *)
(* fail.  A path segment ".." is kept as a name by the map.  The url is    *)
(* either accepted by the http(s) test or not; its Dropbox rewriting has   *)
(* no effect on the state and is left out.  zip.files is an object keyed   *)
(* by entry name, iterated with for-in.  The plugin is the only writer on  *)
(* the vault except under SpecRace; every entry inflates except under      *)
(* SpecCorrupt and SpecLive; one call runs at a time except under          *)
(* SpecOverlap, where a second call starts while the first is in flight.   *)
(***************************************************************************)
EXTENDS Integers, Sequences, FiniteSets, TLC

VARIABLES
    vault,                 \* app.vault's file map: path -> [kind, data]
    targetFolder,          \* this.settings.targetFolder
    archive,               \* zip.files in iteration order: [path, dir, data]
    mkdirMode,             \* what the storage's mkdir does about missing ancestors
    pc,                    \* position of the downloadAndUnzip call
    targetPath,            \* targetFolder.path of the TFolder ensureFolderExists returned
    cleanTargetFolderPath, \* local of downloadAndUnzip
    fileCount,             \* local of downloadAndUnzip
    folderPathsCreated,    \* local of downloadAndUnzip
    idx,                   \* position of the for-in loop over zip.files (1-based)
    pendPath,              \* argument of the vault call being awaited
    notices,               \* the Notice objects shown by the current call, in order
    calls,                 \* the vault calls made by the current call, in order
    entryOutcome,          \* per entry of the current call: the branch that ended it
    outcome,               \* how the current call ended ("none" while it runs)
    runs,                  \* number of downloadAndUnzip calls started
    faults,                \* number of environment failures injected so far
    runFaults,             \* ... of them in the current call
    vaultAtStart,          \* the vault when the current call started
    prev,                  \* summary of the previous call, for run-to-run comparison
    other                  \* the locals of a second call that is in flight, awaiting

vars == <<vault, targetFolder, archive, mkdirMode, pc, targetPath,
          cleanTargetFolderPath, fileCount, folderPathsCreated, idx, pendPath,
          notices, calls, entryOutcome, outcome, runs, faults, runFaults,
          vaultAtStart, prev, other>>

\* ------------------------------------------------------------------ bounds
MaxEntries == 2
MaxRuns == 2
MaxFaults == 1

\* ------------------------------------------------------------------ strings
SLASH == "/"
BSLASH == "\\"
ROOT == <<SLASH>>
EMPTY == <<>>

\* The element of a one-element set.  Only({ e(t) : t \in {x} }) is e(x) with
\* x evaluated once, like a `const`, whatever its uses in e.
Only(S) == CHOOSE y \in S : TRUE

\* String.prototype.lastIndexOf('/'), 1-based; 0 when there is none (JS: -1).
LastSlash(s) ==
    Only({ (
        IF \E i \in 1..Len(t) : t[i] = SLASH
        THEN CHOOSE i \in 1..Len(t) :
                t[i] = SLASH /\ \A j \in (i+1)..Len(t) : t[j] # SLASH
        ELSE 0)
           : t \in {s} })

\* relativePath.split('/').pop()
FileNameOf(s) == SubSeq(s, LastSlash(s) + 1, Len(s))

\* String.prototype.startsWith
StartsWith(s, p) == Len(s) >= Len(p) /\ SubSeq(s, 1, Len(p)) = p

\* .replace(/\\/g, '/')
ReplaceBackslashes(s) == [i \in 1..Len(s) |-> IF s[i] = BSLASH THEN SLASH ELSE s[i]]

\* .replace(/\/+/g, '/')
RECURSIVE CollapseSlashes(_)
CollapseSlashes(s) ==
    IF Len(s) <= 1 THEN s
    ELSE IF s[1] = SLASH /\ s[2] = SLASH THEN CollapseSlashes(Tail(s))
    ELSE <<s[1]>> \o CollapseSlashes(Tail(s))

\* path.replace(/^\/|\/$/g, '')
StripEnds(s) ==
    LET s1 == IF Len(s) > 0 /\ s[1] = SLASH THEN Tail(s) ELSE s
    IN  IF Len(s1) > 0 /\ s1[Len(s1)] = SLASH THEN SubSeq(s1, 1, Len(s1) - 1) ELSE s1

RECURSIVE StripLeading(_)
StripLeading(s) == IF Len(s) > 0 /\ s[1] = SLASH THEN StripLeading(Tail(s)) ELSE s

RECURSIVE StripTrailing(_)
StripTrailing(s) ==
    IF Len(s) > 0 /\ s[Len(s)] = SLASH THEN StripTrailing(SubSeq(s, 1, Len(s) - 1)) ELSE s

\* The vault's own normalisation of the path of a creation call: every run of
\* separators becomes one "/", leading and trailing ones go, "" becomes "/".
VaultNormalize(s) ==
    LET t == StripTrailing(StripLeading(CollapseSlashes(ReplaceBackslashes(s))))
    IN  IF t = EMPTY THEN ROOT ELSE t

\* The folder holding p, for a vault path p ("/" for a top-level one).
ParentOf(p) == IF LastSlash(p) <= 1 THEN ROOT ELSE SubSeq(p, 1, LastSlash(p) - 1)

\* Every proper ancestor folder of the vault path p, the root excluded.
AncestorsOf(p) == { SubSeq(p, 1, i - 1) : i \in { j \in 2..Len(p) : p[j] = SLASH } }

\* ------------------------------------------------------------------ the vault
Exists(v, p) == p \in DOMAIN v
IsFolder(v, p) == p = ROOT \/ (Exists(v, p) /\ v[p].kind = "folder")
IsFile(v, p) == Exists(v, p) /\ v[p].kind = "file"
FolderRec == [kind |-> "folder", data |-> 0]
FileRec(d) == [kind |-> "file", data |-> d]

\* this.app.vault.getAbstractFileByPath(p): a lookup by the literal path.
KindAt(v, p) == IF p = ROOT THEN "folder" ELSE IF Exists(v, p) THEN v[p].kind ELSE "none"

\* What createFolder does when ancestors of the new folder are missing:
\* "recursive" creates them too (Obsidian's adapters), "strict" rejects the call,
\* "leafOnly" records the new folder alone.
MkdirModes == {"recursive", "strict", "leafOnly"}

\* this.app.vault.createFolder(p) can succeed.
CreateFolderOk(v, p) ==
    LET np == VaultNormalize(p)
    IN  /\ np # ROOT
        /\ ~Exists(v, np)
        /\ \A a \in AncestorsOf(np) : ~IsFile(v, a)
        /\ (mkdirMode = "strict" => IsFolder(v, ParentOf(np)))

\* The vault after a successful this.app.vault.createFolder(p).
CreateFolderEffect(v, p) ==
    LET np == VaultNormalize(p)
        new == IF mkdirMode = "recursive"
               THEN { q \in AncestorsOf(np) \cup {np} : ~Exists(v, q) }
               ELSE {np}
    IN  [q \in DOMAIN v \cup new |-> IF q \in DOMAIN v THEN v[q] ELSE FolderRec]

\* this.app.vault.createBinary(p, ..) throws "File already exists."
CreateBinaryExists(v, p) == VaultNormalize(p) = ROOT \/ Exists(v, VaultNormalize(p))

\* this.app.vault.createBinary(p, ..) can succeed.
CreateBinaryOk(v, p) ==
    /\ ~CreateBinaryExists(v, p)
    /\ IsFolder(v, ParentOf(VaultNormalize(p)))

\* The vault after a successful this.app.vault.createBinary(p, d).
CreateBinaryEffect(v, p, d) ==
    LET np == VaultNormalize(p)
    IN  [q \in DOMAIN v \cup {np} |-> IF q = np THEN FileRec(d) ELSE v[q]]


\* ------------------------------------------------------------------ inputs
\* Archive entry names.  JSZip marks an entry as a directory exactly when its
\* name ends with "/".  The names with parent-directory segments are written
\* with "\\": JSZip's loadAsync (from 3.8.0) resolves ".." between "/" only, so
\* such a name reaches the loop whatever the JSZip version is.
NameX == <<"x">>
NameAX == <<"a", SLASH, "x">>
NameABX == <<"a", SLASH, "b", SLASH, "x">>
NameADir == <<"a", SLASH>>
NameA == <<"a">>
NameUpX == <<"..", BSLASH, "x">>
NameMacX == <<"__MACOSX", SLASH, "x">>
NameADs == <<"a", SLASH, ".DS_Store">>
NameDs == <<".DS_Store">>
NameUpUpX == <<"..", BSLASH, "..", BSLASH, "x">>
Name7 == <<"7">>
Name12 == <<"12">>
NameBsX == <<BSLASH, "x">>
NameSlAX == <<SLASH, "a", SLASH, "x">>
NameSlX == <<SLASH, "x">>
NameABsX == <<"a", BSLASH, "x">>
NameMacBsX == <<"__MACOSX", BSLASH, "x">>
NameABsDs == <<"a", BSLASH, ".DS_Store">>

\* The r-th record of the archive: its data is r.
Entry(name, r) ==
    [path |-> name, dir |-> (name # EMPTY /\ name[Len(name)] = SLASH), data |-> r,
     rec |-> r]

\* zip.files is keyed by name: the names of an archive are distinct.  The
\* records of one archive differ in their data.
ArchivesOver(pool) ==
    { s \in UNION { [1..n -> pool] : n \in 0..MaxEntries } :
        \A i, j \in 1..Len(s) : i # j => s[i] # s[j] }

\* The number a property key stands for when it is an array index (a canonical
\* numeric string), -1 when it is not.
ArrayIndexValue(name) ==
    IF name = Name7 THEN 7 ELSE IF name = Name12 THEN 12 ELSE -1

\* `for (const relativePath in zip.files)`: the keys of the object zip.files
\* in property enumeration order, that is the array indices in ascending
\* numeric order and then the other keys in the order JSZip.loadAsync added
\* them (the order of the archive's records).
ForIn(es) ==
    LET val(i) == ArrayIndexValue(es[i].path)
        Before(i, j) ==
            IF val(i) >= 0 /\ val(j) >= 0 THEN val(i) < val(j)
            ELSE IF val(i) >= 0 \/ val(j) >= 0 THEN val(i) >= 0
            ELSE i < j
        pos(i) == 1 + Cardinality({ j \in 1..Len(es) : Before(j, i) })
    IN  [k \in 1..Len(es) |-> es[CHOOSE i \in 1..Len(es) : pos(i) = k]]

\* zip.files in iteration order, for the archive whose records bear names.
MkArchive(names) == ForIn([r \in 1..Len(names) |-> Entry(names[r], r)])

\* Vault contents before the first call, beneath base (EMPTY for the vault
\* root, <<"T", "/">> for the folder T).  Pre-existing files hold the data 1.
Items(base, shape) ==
    CASE shape = "empty" -> {}
      [] shape = "xFile" -> { <<base \o <<"x">>, FileRec(1)>> }
      [] shape = "xDir"  -> { <<base \o <<"x">>, FolderRec>> }
      [] shape = "aFile" -> { <<base \o <<"a">>, FileRec(1)>> }
      [] shape = "aDirX" -> { <<base \o <<"a">>, FolderRec>>,
                              <<base \o <<"a", SLASH, "x">>, FileRec(1)>> }

MkVault(items) ==
    [p \in { it[1] : it \in items } |-> (CHOOSE it \in items : it[1] = p)[2]]

Shapes == {"empty", "xFile", "xDir", "aFile", "aDirX"}
NameT == <<"T">>

\* The pairs (settings.targetFolder, vault) a behaviour starts from.
Worlds ==
    { [target |-> ROOT, vault |-> MkVault(Items(EMPTY, sh))] : sh \in Shapes }
    \cup { [target |-> NameT,
            vault |-> MkVault({<<NameT, FolderRec>>} \cup Items(<<"T", SLASH>>, sh))]
           : sh \in Shapes }
    \cup { [target |-> NameT, vault |-> MkVault({})],
           [target |-> NameT, vault |-> MkVault({<<NameT, FileRec(1)>>})] }

\* ------------------------------------------------------------------ the code
\* The ignore test without its `fileName === '.DS_Store'` disjunct.
IsIgnoredNoDsStore(relativePath) ==
    \/ StartsWith(relativePath, <<"__MACOSX", SLASH>>)
    \/ relativePath = EMPTY

\* The ignore test of the loop.
IsIgnored(relativePath) ==
    \/ StartsWith(relativePath, <<"__MACOSX", SLASH>>)
    \/ FileNameOf(relativePath) = <<".DS_Store">>
    \/ relativePath = EMPTY

FullDestPath(clean, relativePath) ==
    IF clean # EMPTY THEN clean \o <<SLASH>> \o relativePath ELSE relativePath

NormalizedDestPath(clean, relativePath) ==
    CollapseSlashes(ReplaceBackslashes(FullDestPath(clean, relativePath)))

DirPath(nd) ==
    IF Len(nd) > 0 /\ nd[Len(nd)] = SLASH THEN SubSeq(nd, 1, Len(nd) - 1) ELSE nd

ParentPath(nd) ==
    IF LastSlash(nd) > 1 THEN SubSeq(nd, 1, LastSlash(nd) - 1)
    ELSE IF LastSlash(nd) = 1 THEN ROOT ELSE EMPTY

PathToCheck(nd) == IF Len(nd) > 0 /\ nd[1] = SLASH THEN Tail(nd) ELSE nd

\* EnsureSync without its `existingItem instanceof TFile` branch: createFolder
\* is called for a path a file holds.
EnsureSyncNoFileBranch(v, path) ==
    IF path = ROOT \/ path = EMPTY \/ StripEnds(path) = EMPTY
    THEN [res |-> "folder", path |-> ROOT, looked |-> FALSE]
    ELSE LET np == StripEnds(path)
             k == KindAt(v, np)
         IN  [res |-> CASE k = "folder" -> "folder" [] OTHER -> "pending",
              path |-> np, looked |-> TRUE]

\* The part of ensureFolderExists(path) that runs before its first await:
\* "folder" (a TFolder is returned), "null", or "pending" (createFolder is called).
EnsureSync(v, path) ==
    Only({ (
        IF pth = ROOT \/ pth = EMPTY \/ StripEnds(pth) = EMPTY
        THEN [res |-> "folder", path |-> ROOT, looked |-> FALSE]
        ELSE LET np == StripEnds(pth)
                 k == KindAt(v, np)
             IN  [res |-> CASE k = "folder" -> "folder" [] k = "file" -> "null" [] OTHER -> "pending",
                  path |-> np, looked |-> TRUE])
           : pth \in {path} })


\* ------------------------------------------------------------------ the call
\* The locals of the running call, and what it has shown and called so far.
Cur ==
    [pc |-> pc, idx |-> idx, fpc |-> folderPathsCreated, fc |-> fileCount,
     notices |-> notices, calls |-> calls, eo |-> entryOutcome,
     pend |-> pendPath, outcome |-> outcome]

Apply(L) ==
    \E r \in {L} :
        /\ pc' = r.pc
        /\ idx' = r.idx
        /\ folderPathsCreated' = r.fpc
        /\ fileCount' = r.fc
        /\ notices' = r.notices
        /\ calls' = r.calls
        /\ entryOutcome' = r.eo
        /\ pendPath' = r.pend
        /\ outcome' = r.outcome

Notice(L, kind, path, n) ==
    Only({ (
        [r EXCEPT !.notices =
            Append(@, [kind |-> kind, path |-> path, n |-> n, entry |-> r.idx])])
           : r \in {L} })

Called(L, op, path) ==
    Only({ (
        [r EXCEPT !.calls = Append(@, [op |-> op, path |-> path, entry |-> r.idx])])
           : r \in {L} })

\* The call returns.
Return(L, how) == [L EXCEPT !.pc = "done", !.outcome = how]

\* `continue`, or the end of the loop body: on to the next entry.
NextEntry(L, tag) == [L EXCEPT !.pc = "loop", !.idx = @ + 1, !.eo = Append(@, tag)]

\* The outer catch of downloadAndUnzip.
OuterCatch(L) == Return(Notice(L, "unzipFailed", EMPTY, 0), "aborted")

\* ensureFolderExists up to its first await, with its lookup and Notice.
EnsureStart(L, v, path) ==
    Only({ (
        LET e == EnsureSync(v, path)
            L1 == IF e.looked THEN Called(r, "get", e.path) ELSE r
        IN  IF e.res = "null" THEN Notice(L1, "fileAtFolderPath", e.path, 0) ELSE L1)
           : r \in {L} })

DestOf(L) == NormalizedDestPath(cleanTargetFolderPath, archive[L.idx].path)

\* FileCheck without its `existingItem instanceof TFolder` branch: a path held
\* by a folder is handed to createBinary.
FileCheckNoConflict(L, v) ==
    LET nd == DestOf(L)
        ptc == PathToCheck(nd)
    IN  IF ptc = EMPTY /\ nd = ROOT THEN NextEntry(L, "rootSkip")
        ELSE LET k == IF ptc # EMPTY THEN KindAt(v, ptc) ELSE "none"
                 L1 == IF ptc # EMPTY THEN Called(L, "get", ptc) ELSE L
             IN  CASE k = "file" -> NextEntry(L1, "skipped")
                   [] OTHER -> Called([L1 EXCEPT !.pc = "write", !.pend = nd],
                                      "createBinary", nd)

\* FileCheck without its `existingItem instanceof TFile` branch: an existing
\* file is handed to createBinary like a missing one.
FileCheckNoSkip(L, v) ==
    LET nd == DestOf(L)
        ptc == PathToCheck(nd)
    IN  IF ptc = EMPTY /\ nd = ROOT THEN NextEntry(L, "rootSkip")
        ELSE LET k == IF ptc # EMPTY THEN KindAt(v, ptc) ELSE "none"
                 L1 == IF ptc # EMPTY THEN Called(L, "get", ptc) ELSE L
             IN  CASE k = "folder" -> NextEntry(Notice(L1, "folderAtFilePath", nd, 0), "conflict")
                   [] OTHER -> Called([L1 EXCEPT !.pc = "write", !.pend = nd],
                                      "createBinary", nd)

\* The existence check of a file entry and the branch it selects, up to the
\* createBinary call.
FileCheck(L, v) ==
    Only({ (
        LET nd == DestOf(r)
            ptc == PathToCheck(nd)
        IN  IF ptc = EMPTY /\ nd = ROOT THEN NextEntry(r, "rootSkip")
            ELSE LET k == IF ptc # EMPTY THEN KindAt(v, ptc) ELSE "none"
                     L1 == IF ptc # EMPTY THEN Called(r, "get", ptc) ELSE r
                 IN  CASE k = "file" -> NextEntry(L1, "skipped")
                       [] k = "folder" -> NextEntry(Notice(L1, "folderAtFilePath", nd, 0), "conflict")
                       [] OTHER -> Called([L1 EXCEPT !.pc = "write", !.pend = nd],
                                          "createBinary", nd))
           : r \in {L} })

\* The parent of a file entry has to be ensured.
NeedsParent(L, pp) == pp # EMPTY /\ pp # cleanTargetFolderPath /\ pp \notin L.fpc

\* ParentStep without the ensureFolderExists(parentPath) block.
ParentStepNoEnsure(L, v) == FileCheck(L, v)

\* ParentStep without the `continue` of its `if (!parentFolderExists)` block.
ParentStepIgnoresNull(L, v) ==
    LET pp == ParentPath(DestOf(L))
    IN  IF NeedsParent(L, pp)
        THEN LET e == EnsureSync(v, pp)
                 L1 == EnsureStart(L, v, pp)
             IN  CASE e.res = "folder" -> FileCheck([L1 EXCEPT !.fpc = @ \cup {pp}], v)
                   [] e.res = "null" -> FileCheck(L1, v)
                   [] OTHER -> Called([L1 EXCEPT !.pc = "mkParent", !.pend = e.path],
                                      "createFolder", e.path)
        ELSE FileCheck(L, v)

\* A file entry after its data has been read: ensure the parent, then check.
ParentStep(L, v) ==
    Only({ (
        LET pp == ParentPath(DestOf(r))
        IN  IF NeedsParent(r, pp)
            THEN LET e == EnsureSync(v, pp)
                     L1 == EnsureStart(r, v, pp)
                 IN  CASE e.res = "folder" -> FileCheck([L1 EXCEPT !.fpc = @ \cup {pp}], v)
                       [] e.res = "null" -> NextEntry(L1, "parentFail")
                       [] OTHER -> Called([L1 EXCEPT !.pc = "mkParent", !.pend = e.path],
                                          "createFolder", e.path)
            ELSE FileCheck(r, v))
           : r \in {L} })

\* A directory entry.
DirStep(L, v) ==
    Only({ (
        LET dp == DirPath(DestOf(r))
        IN  IF dp # EMPTY /\ dp \notin r.fpc
            THEN LET e == EnsureSync(v, dp)
                     L1 == EnsureStart(r, v, dp)
                 IN  CASE e.res = "folder" -> NextEntry([L1 EXCEPT !.fpc = @ \cup {dp}], "dirOk")
                       [] e.res = "null" -> NextEntry(L1, "dirFail")
                       [] OTHER -> Called([L1 EXCEPT !.pc = "mkDir", !.pend = e.path],
                                          "createFolder", e.path)
            ELSE NextEntry(r, "dirMemo"))
           : r \in {L} })

\* LoopStep with the summary Notice shown only when a file was created.
LoopStepQuietEnd(L, v) ==
    IF L.idx > Len(archive)
    THEN IF L.fc > 0 THEN Return(Notice(L, "success", targetPath, L.fc), "completed")
         ELSE Return(L, "completed")
    ELSE IF IsIgnored(archive[L.idx].path) THEN NextEntry(L, "ignored")
    ELSE IF archive[L.idx].dir THEN DirStep(L, v)
    ELSE [L EXCEPT !.pc = "unzip"]

\* One turn of the for-in loop, up to its first await.
LoopStep(L, v) ==
    IF L.idx > Len(archive)
    THEN Return(Notice(L, "success", targetPath, L.fc), "completed")
    ELSE IF IsIgnored(archive[L.idx].path) THEN NextEntry(L, "ignored")
    ELSE IF archive[L.idx].dir THEN DirStep(L, v)
    ELSE [L EXCEPT !.pc = "unzip"]

\* EnsureEnd without the `checkAgain` lookup of its catch block.
EnsureEndNoRecheck(L, v, ok) ==
    IF ok THEN [res |-> "folder", L |-> Notice(L, "createdFolder", L.pend, 0)]
    ELSE [res |-> "null", L |-> Notice(L, "errorCreatingFolder", L.pend, 0)]

\* ensureFolderExists after its createFolder call has settled: the TFolder's
\* path, or "null".
EnsureEnd(L, v, ok) ==
    IF ok THEN [res |-> "folder", L |-> Notice(L, "createdFolder", L.pend, 0)]
    ELSE IF KindAt(v, L.pend) = "folder" THEN [res |-> "folder", L |-> L]
    ELSE [res |-> "null", L |-> Notice(L, "errorCreatingFolder", L.pend, 0)]

\* AfterTarget without the `return` of its `if (!targetFolder)` block.
AfterTargetNoReturn(L, res) ==
    IF res = "folder" THEN Notice([L EXCEPT !.pc = "download"], "downloading", EMPTY, 0)
    ELSE Notice(Notice([L EXCEPT !.pc = "download"], "targetAbort", targetFolder, 0),
                "downloading", EMPTY, 0)

\* downloadAndUnzip once ensureFolderExists(targetFolderPath) has returned.
AfterTarget(L, res) ==
    IF res = "folder" THEN Notice([L EXCEPT !.pc = "download"], "downloading", EMPTY, 0)
    ELSE Return(Notice(L, "targetAbort", targetFolder, 0), "noTarget")

CleanOf(path) == IF path = ROOT THEN EMPTY ELSE path

inputs == <<targetFolder, archive, mkdirMode>>
history == <<vaultAtStart, prev>>
counters == <<runs>>

Fresh ==
    [pc |-> "idle", idx |-> 0, fpc |-> {}, fc |-> 0, notices |-> <<>>, calls |-> <<>>,
     eo |-> <<>>, pend |-> EMPTY, outcome |-> "none"]

\* The locals of the running call, as they are kept while another call runs.
Parked ==
    [L |-> Cur, targetPath |-> targetPath, clean |-> cleanTargetFolderPath,
     runFaults |-> runFaults]

\* No second call is in flight.
NoRun == [L |-> Fresh, targetPath |-> ROOT, clean |-> EMPTY, runFaults |-> 0]

CanFault == faults < MaxFaults
Fault == faults' = faults + 1 /\ runFaults' = runFaults + 1
NoFault == UNCHANGED <<faults, runFaults>>

\* downloadAndUnzip(url) from its first line up to its first await.
Begin ==
    \E urlOk \in BOOLEAN :
        IF ~urlOk
        THEN /\ Apply(Return(Notice(Fresh, "invalidUrl", EMPTY, 0), "invalidUrl"))
             /\ UNCHANGED <<targetPath, cleanTargetFolderPath>>
        ELSE LET e == EnsureSync(vault, targetFolder)
                 L1 == EnsureStart(Fresh, vault, targetFolder)
             IN  IF e.res = "pending"
                 THEN /\ Apply(Called([L1 EXCEPT !.pc = "mkTarget", !.pend = e.path],
                                      "createFolder", e.path))
                      /\ UNCHANGED <<targetPath, cleanTargetFolderPath>>
                 ELSE /\ Apply(AfterTarget(L1, e.res))
                      /\ targetPath' = IF e.res = "folder" THEN e.path ELSE targetPath
                      /\ cleanTargetFolderPath' =
                            IF e.res = "folder" THEN CleanOf(e.path) ELSE cleanTargetFolderPath

\* showUrlInputModal's callback: downloadAndUnzip(url) is called and runs up to
\* its first await.
Invoke ==
    /\ pc \in {"idle", "done"}
    /\ runs < MaxRuns
    /\ runs' = runs + 1
    /\ runFaults' = 0
    /\ UNCHANGED <<faults, vault, inputs, other>>
    /\ vaultAtStart' = vault
    /\ prev' = [ran |-> pc = "done", outcome |-> outcome, count |-> fileCount,
                faults |-> runFaults, vault |-> vault, start |-> vaultAtStart]
    /\ Begin

\* The continuation of the call once the awaited ensureFolderExists returned
\* res, at each of its three call sites.
AfterEnsure(L, v, res) ==
    Only({ (
        CASE pc = "mkTarget" -> AfterTarget(r, res)
          [] pc = "mkDir" ->
                IF res = "folder"
                THEN NextEntry([r EXCEPT !.fpc = @ \cup {DirPath(DestOf(r))}], "dirOk")
                ELSE NextEntry(r, "dirFail")
          [] pc = "mkParent" ->
                IF res = "folder"
                THEN FileCheck([r EXCEPT !.fpc = @ \cup {ParentPath(DestOf(r))}], v)
                ELSE NextEntry(r, "parentFail"))
           : r \in {L} })

\* The awaited this.app.vault.createFolder settles.
CreateFolderReturn ==
    /\ pc \in {"mkTarget", "mkDir", "mkParent"}
    /\ UNCHANGED <<inputs, history, counters, other>>
    /\ \E ok \in BOOLEAN :
        /\ ok => CreateFolderOk(vault, pendPath)
        /\ (~ok /\ CreateFolderOk(vault, pendPath)) => CanFault
        /\ IF ~ok /\ CreateFolderOk(vault, pendPath) THEN Fault ELSE NoFault
        /\ vault' = IF ok THEN CreateFolderEffect(vault, pendPath) ELSE vault
        /\ LET e == EnsureEnd(Cur, vault', ok)
           IN  /\ Apply(AfterEnsure(e.L, vault', e.res))
               /\ IF pc = "mkTarget" /\ e.res = "folder"
                  THEN /\ targetPath' = VaultNormalize(pendPath)
                       /\ cleanTargetFolderPath' = CleanOf(VaultNormalize(pendPath))
                  ELSE UNCHANGED <<targetPath, cleanTargetFolderPath>>

\* The catch around requestUrl without its `return`.
AfterFetchNoReturn(L, ok) ==
    IF ok THEN Notice([L EXCEPT !.pc = "decode"], "downloadComplete", EMPTY, 0)
    ELSE Notice([L EXCEPT !.pc = "decode"], "downloadFailed", EMPTY, 0)

\* The try/catch around requestUrl.
AfterFetch(L, ok) ==
    IF ok THEN Notice([L EXCEPT !.pc = "decode"], "downloadComplete", EMPTY, 0)
    ELSE Return(Notice(L, "downloadFailed", EMPTY, 0), "fetchFailed")

\* The awaited requestUrl settles.
Download ==
    /\ pc = "download"
    /\ UNCHANGED <<vault, inputs, history, counters, other, targetPath, cleanTargetFolderPath>>
    /\ \/ /\ NoFault
          /\ Apply(AfterFetch(Cur, TRUE))
       \/ /\ CanFault /\ Fault
          /\ Apply(AfterFetch(Cur, FALSE))

\* JSZip.loadAsync in a try of its own whose catch shows the Notice and lets the
\* loop start.
AfterDecodeGoesOn(L, ok) ==
    IF ok THEN [L EXCEPT !.pc = "loop", !.idx = 1, !.fc = 0, !.fpc = {}]
    ELSE [Notice(L, "unzipFailed", EMPTY, 0) EXCEPT !.pc = "loop", !.idx = 1, !.fc = 0, !.fpc = {}]

\* JSZip.loadAsync inside the outer try: the loop starts, or the outer catch runs.
AfterDecode(L, ok) ==
    IF ok THEN [L EXCEPT !.pc = "loop", !.idx = 1, !.fc = 0, !.fpc = {}]
    ELSE OuterCatch(L)

\* The awaited JSZip.loadAsync settles.
Decode ==
    /\ pc = "decode"
    /\ UNCHANGED <<vault, inputs, history, counters, other, targetPath, cleanTargetFolderPath>>
    /\ \/ /\ NoFault
          /\ Apply(AfterDecode(Cur, TRUE))
       \/ /\ CanFault /\ Fault
          /\ Apply(AfterDecode(Cur, FALSE))

\* The loop goes on to its next entry.
Loop ==
    /\ pc = "loop"
    /\ UNCHANGED <<vault, inputs, history, counters, other, targetPath, cleanTargetFolderPath>>
    /\ NoFault
    /\ Apply(LoopStep(Cur, vault))

\* The awaited zipEntry.async('arraybuffer') resolves with the entry's data.
Unzip ==
    /\ pc = "unzip"
    /\ UNCHANGED <<vault, inputs, history, counters, other, targetPath, cleanTargetFolderPath>>
    /\ NoFault
    /\ Apply(ParentStep(Cur, vault))

\* The awaited zipEntry.async('arraybuffer') rejects (the entry's compressed
\* data cannot be inflated): the await is inside the outer try only.
UnzipFails ==
    /\ pc = "unzip"
    /\ UNCHANGED <<vault, inputs, history, counters, other, targetPath, cleanTargetFolderPath>>
    /\ CanFault /\ Fault
    /\ Apply(OuterCatch([Cur EXCEPT !.eo = Append(@, "unzipError")]))

\* The catch around createBinary with `fileCount++` in its "already exists" branch.
AfterWriteCountsRaced(L, res) ==
    CASE res = "ok" -> NextEntry([L EXCEPT !.fc = @ + 1], "written")
      [] res = "exists" -> NextEntry([L EXCEPT !.fc = @ + 1], "raceSkip")
      [] OTHER -> NextEntry(Notice(L, "errorCreatingFile", L.pend, 0), "writeError")

\* createBinary as a call that replaces the data of a file it finds at the path.
WriteResultOverwrites(v, p) ==
    IF CreateBinaryOk(v, p) \/ IsFile(v, VaultNormalize(p)) THEN "ok"
    ELSE IF CreateBinaryExists(v, p) THEN "exists" ELSE "error"

\* How the awaited createBinary settles when nothing else goes wrong.
WriteResult(v, p) ==
    IF CreateBinaryExists(v, p) THEN "exists"
    ELSE IF CreateBinaryOk(v, p) THEN "ok" ELSE "error"

\* createBinary without the try/catch around it: its error reaches the outer catch.
AfterWriteNoCatch(L, res) ==
    CASE res = "ok" -> NextEntry([L EXCEPT !.fc = @ + 1], "written")
      [] OTHER -> OuterCatch([L EXCEPT !.eo = Append(@, "writeError")])

\* The try/catch around createBinary with `fileCount++` ahead of the await.
AfterWriteCountsFailed(L, res) ==
    CASE res = "ok" -> NextEntry([L EXCEPT !.fc = @ + 1], "written")
      [] res = "exists" -> NextEntry([L EXCEPT !.fc = @ + 1], "raceSkip")
      [] OTHER -> NextEntry(Notice([L EXCEPT !.fc = @ + 1], "errorCreatingFile", L.pend, 0),
                            "writeError")

\* The catch around createBinary without its "file already exists" test.
AfterWriteNoExistsTest(L, res) ==
    CASE res = "ok" -> NextEntry([L EXCEPT !.fc = @ + 1], "written")
      [] res = "exists" -> NextEntry(Notice(L, "errorCreatingFile", L.pend, 0), "raceSkip")
      [] OTHER -> NextEntry(Notice(L, "errorCreatingFile", L.pend, 0), "writeError")

\* The try/catch around createBinary.
AfterWrite(L, res) ==
    CASE res = "ok" -> NextEntry([L EXCEPT !.fc = @ + 1], "written")
      [] res = "exists" -> NextEntry(L, "raceSkip")
      [] OTHER -> NextEntry(Notice(L, "errorCreatingFile", L.pend, 0), "writeError")

\* The awaited this.app.vault.createBinary settles.
CreateBinaryReturn ==
    /\ pc = "write"
    /\ UNCHANGED <<inputs, history, counters, other, targetPath, cleanTargetFolderPath>>
    /\ \/ /\ NoFault
          /\ vault' = IF WriteResult(vault, pendPath) = "ok"
                      THEN CreateBinaryEffect(vault, pendPath, archive[idx].data)
                      ELSE vault
          /\ Apply(AfterWrite(Cur, WriteResult(vault, pendPath)))
       \/ /\ WriteResult(vault, pendPath) = "ok"
          /\ CanFault /\ Fault
          /\ UNCHANGED vault
          /\ Apply(AfterWrite(Cur, "error"))

Next ==
    \/ Invoke
    \/ CreateFolderReturn
    \/ Download
    \/ Decode
    \/ Loop
    \/ Unzip
    \/ CreateBinaryReturn

InitOver(pool, worlds, modes) ==
    /\ \E w \in worlds : vault = w.vault /\ targetFolder = w.target /\ vaultAtStart = w.vault
    /\ \E names \in ArchivesOver(pool) : archive = MkArchive(names)
    /\ mkdirMode \in modes
    /\ pc = "idle"
    /\ targetPath = ROOT
    /\ cleanTargetFolderPath = EMPTY
    /\ fileCount = 0
    /\ folderPathsCreated = {}
    /\ idx = 0
    /\ pendPath = EMPTY
    /\ notices = <<>>
    /\ calls = <<>>
    /\ entryOutcome = <<>>
    /\ outcome = "none"
    /\ runs = 0
    /\ other = NoRun
    /\ faults = 0
    /\ runFaults = 0
    /\ prev = [ran |-> FALSE, outcome |-> "none", count |-> 0, faults |-> 0,
               vault |-> vault, start |-> vault]

CorePool == {NameX, NameAX, NameABX, NameADir, NameA}

\* The plugin on a vault whose createFolder creates missing ancestors, over
\* archives whose entries all inflate.
Init == InitOver(CorePool, Worlds, {"recursive"})

Spec == Init /\ [][Next]_vars

\* The same on a storage whose mkdir does not create intermediate segments.
InitStrict == InitOver(CorePool, Worlds, MkdirModes \ {"recursive"})

SpecStrict == InitStrict /\ [][Next]_vars

\* The same over archives whose entry names hold parent-directory segments.
PathPool == {NameUpX, NameUpUpX, NameX, NameAX}

InitPath == InitOver(PathPool, Worlds, {"recursive"})

SpecPath == InitPath /\ [][Next]_vars

\* The same over archives that hold macOS metadata entries.
MetaPool == {NameMacX, NameADs, NameDs, EMPTY, NameX}

InitMeta == InitOver(MetaPool, Worlds, {"recursive"})

SpecMeta == InitMeta /\ [][Next]_vars

\* The same over archives that hold metadata names written with backslashes.
MetaBsPool == {NameMacBsX, NameABsDs, NameMacX, NameDs, NameX}

InitMetaBs == InitOver(MetaBsPool, Worlds, {"recursive"})

SpecMetaBs == InitMetaBs /\ [][Next]_vars

\* The same over archives that hold distinct names with one destination.
CollidePool == {NameX, NameBsX, NameAX, NameABsX}

InitCollide == InitOver(CollidePool, Worlds, {"recursive"})

SpecCollide == InitCollide /\ [][Next]_vars

\* The same over archives that hold entries named by numbers.
OrderPool == {NameX, NameADir, Name7, Name12}

InitOrder == InitOver(OrderPool, Worlds, {"recursive"})

SpecOrder == InitOrder /\ [][Next]_vars

\* The data of a file that something other than the plugin puts in the vault.
OtherData == 9

\* Another writer on the vault (a sync service, another plugin, the user):
\* while a creation call of the plugin is awaited it puts a folder or a file at
\* the path of that call.
OtherWriter ==
    /\ pc \in {"mkTarget", "mkDir", "mkParent", "write"}
    /\ \/ /\ CreateFolderOk(vault, pendPath)
          /\ vault' = CreateFolderEffect(vault, pendPath)
       \/ /\ CreateBinaryOk(vault, pendPath)
          /\ vault' = CreateBinaryEffect(vault, pendPath, OtherData)
    /\ UNCHANGED <<inputs, history, counters, other, faults, runFaults, targetPath,
                   cleanTargetFolderPath, pc, idx, folderPathsCreated, fileCount, notices,
                   calls, entryOutcome, pendPath, outcome>>

NextRace == Next \/ OtherWriter

RacePool == {NameX, NameAX, NameADir}

InitRace == InitOver(RacePool, Worlds, {"recursive"})

SpecRace == InitRace /\ [][NextRace]_vars

\* showUrlInputModal's callback while a call is in flight: nothing guards
\* downloadAndUnzip, so a second call starts and runs up to its first await;
\* the first call waits with its locals.  It is the last call modelled.
InvokeAgain ==
    /\ pc \notin {"idle", "done"}
    /\ other = NoRun
    /\ runs < MaxRuns
    /\ runs' = MaxRuns
    /\ other' = Parked
    /\ runFaults' = 0
    /\ UNCHANGED <<faults, vault, inputs, history>>
    /\ Begin

\* The event loop resumes the other call: every step of Next is the piece of
\* one call between two awaits, so the two calls interleave at their awaits.
\* (A step of the model may run past an await that settles at once; the vault
\* only gains paths, and each lookup is in the same step as the creation call
\* that follows it, as in the code.)
Yield ==
    /\ other.L.pc \notin {"idle", "done"}
    /\ other' = Parked
    /\ Apply(other.L)
    /\ targetPath' = other.targetPath
    /\ cleanTargetFolderPath' = other.clean
    /\ runFaults' = other.runFaults
    /\ UNCHANGED <<vault, inputs, history, counters, faults>>

NextOverlap == Next \/ InvokeAgain \/ Yield

OverlapPool == {NameX, NameAX, NameADir}

\* Two calls that may overlap, with the same archive and target.
InitOverlap == InitOver(OverlapPool, Worlds, {"recursive"})

SpecOverlap == InitOverlap /\ [][NextOverlap]_vars

\* The same over archives that hold a name with a leading separator.
MemoPool == {NameSlAX, NameSlX, NameAX, NameADir, NameX}

InitMemo == InitOver(MemoPool, Worlds, {"recursive"})

SpecMemo == InitMemo /\ [][Next]_vars

\* The same over archives that hold entries whose data cannot be inflated.
NextCorrupt == Next \/ UnzipFails

SpecCorrupt == Init /\ [][NextCorrupt]_vars

\* Every await of downloadAndUnzip settles: the vault, requestUrl and JSZip
\* answer each call, with a result or with an error.
Settle ==
    \/ CreateFolderReturn
    \/ Download
    \/ Decode
    \/ Loop
    \/ Unzip
    \/ UnzipFails
    \/ CreateBinaryReturn

\* Archives that hold a metadata entry next to ordinary ones, entries that
\* cannot be inflated among them, on vaults that hold one item at most, with
\* every awaited call settling.
LivePool == {NameAX, NameADir, NameDs}

LiveWorlds == { w \in Worlds : Cardinality(DOMAIN w.vault) <= 1 }

InitLive == InitOver(LivePool, LiveWorlds, {"recursive"})

SpecLive == InitLive /\ [][NextCorrupt]_vars /\ WF_vars(Settle)


\* ------------------------------------------------------------------ claims
\* The loop over the entries has begun in the current call.
Iterating == idx >= 1

Entries == 1..Len(archive)
Done(i) == i <= Len(entryOutcome)

\* The destination of entry i and the path its existence check looks up.
DestI(i) == NormalizedDestPath(cleanTargetFolderPath, archive[i].path)
CheckPathI(i) == PathToCheck(DestI(i))

FileEntry(i) == ~archive[i].dir /\ ~IsIgnored(archive[i].path)

CallsFor(i, op) == { k \in 1..Len(calls) : calls[k].op = op /\ calls[k].entry = i }
NoticesFor(i, kind) == { k \in 1..Len(notices) : notices[k].kind = kind /\ notices[k].entry = i }
Written == { i \in 1..Len(entryOutcome) : entryOutcome[i] = "written" }

Completed == pc = "done" /\ outcome = "completed"

\* A file lay at the destination of the file entry i when the call started.
Occupied(i) == Iterating /\ FileEntry(i) /\ IsFile(vaultAtStart, CheckPathI(i))

\* C1 (non-clobbering): a file entry whose destination held a file when the
\* call started is skipped: createBinary is never called for it, it is not
\* counted, and the file keeps the bytes it had, whatever the entry's data is.
C1_NonClobbering ==
    \A i \in Entries :
        Occupied(i) =>
            /\ IsFile(vault, CheckPathI(i))
            /\ vault[CheckPathI(i)].data = vaultAtStart[CheckPathI(i)].data
            /\ CallsFor(i, "createBinary") = {}
            /\ Done(i) => entryOutcome[i] = "skipped"
            /\ fileCount = Cardinality(Written)

C1_Witness ==
    /\ Completed
    /\ \E i \in Entries :
        /\ Occupied(i)
        /\ archive[i].data # vaultAtStart[CheckPathI(i)].data
        /\ entryOutcome[i] = "skipped"

\* The previous call completed and no storage or network failure struck it.
PrevClean == prev.ran /\ prev.outcome = "completed" /\ prev.faults = 0

\* C2 (idempotence): when a call that completed is followed by a second call
\* with the same archive and target that completes too, the second call
\* reports 0 new files and leaves the vault as the first call left it.
C2_Idempotence ==
    (Completed /\ PrevClean) =>
        /\ fileCount = 0
        /\ notices[Len(notices)].kind = "success" /\ notices[Len(notices)].n = 0
        /\ vault = prev.vault

C2_Witness ==
    /\ Completed /\ PrevClean
    /\ prev.count > 0
    /\ prev.vault # prev.start
    /\ fileCount = 0


\* The segments of a path between its "/" separators, the empty ones dropped.
RECURSIVE Segments(_)
Segments(p) ==
    IF p = EMPTY THEN <<>>
    ELSE IF p[1] = SLASH THEN Segments(Tail(p))
    ELSE LET n == IF \E i \in 1..Len(p) : p[i] = SLASH
                  THEN (CHOOSE i \in 1..Len(p) :
                            p[i] = SLASH /\ \A j \in 1..(i-1) : p[j] # SLASH) - 1
                  ELSE Len(p)
         IN  <<SubSeq(p, 1, n)>> \o Segments(SubSeq(p, n + 1, Len(p)))

\* Where a list of segments leads, ".." stepping to the parent: the folders
\* walked into, and whether the walk stayed beneath the vault root.
RECURSIVE Walk(_, _)
Walk(segs, at) ==
    IF segs = <<>> THEN [ok |-> TRUE, at |-> at]
    ELSE IF Head(segs) = <<"..">>
         THEN IF at = <<>> THEN [ok |-> FALSE, at |-> at]
              ELSE Walk(Tail(segs), SubSeq(at, 1, Len(at) - 1))
         ELSE Walk(Tail(segs), Append(at, Head(segs)))

\* The location the path p denotes is the target folder or lies beneath it.
InsideTarget(p) ==
    LET w == Walk(Segments(p), <<>>)
        t == Segments(cleanTargetFolderPath)
    IN  w.ok /\ Len(w.at) >= Len(t) /\ SubSeq(w.at, 1, Len(t)) = t

\* C3 (path-safety): every path handed to createFolder or createBinary while
\* the entries are processed denotes a location inside the target folder's
\* subtree, also for entry names with parent-directory segments.
C3_PathSafety ==
    \A k \in 1..Len(calls) :
        (calls[k].entry >= 1 /\ calls[k].op \in {"createFolder", "createBinary"})
            => InsideTarget(calls[k].path)

\* The claim's own reading of a metadata name: it begins with "__MACOSX/", its
\* last segment is ".DS_Store", or it is empty.
Metadata(path) ==
    \/ path = EMPTY
    \/ Len(path) >= 2 /\ path[1] = "__MACOSX" /\ path[2] = SLASH
    \/ Segments(path) # <<>> /\ path[Len(path)] # SLASH
         /\ Segments(path)[Len(Segments(path))] = <<".DS_Store">>

\* C4 (metadata filtering): for a metadata entry the call makes no vault call
\* and shows no Notice, and the entry is not counted, whatever the target holds.
C4_MetadataFiltering ==
    \A i \in Entries :
        (Iterating /\ Metadata(archive[i].path)) =>
            /\ { k \in 1..Len(calls) : calls[k].entry = i } = {}
            /\ { k \in 1..Len(notices) : notices[k].entry = i } = {}
            /\ i \notin Written
            /\ Done(i) => entryOutcome[i] = "ignored"

C4_Witness ==
    /\ Completed
    /\ vaultAtStart # vault
    /\ \E i, j \in Entries :
        /\ Metadata(archive[i].path) /\ archive[i].path # EMPTY
        /\ entryOutcome[i] = "ignored"
        /\ entryOutcome[j] = "written"

\* The destination of entry i as the vault stores it.
VaultDestI(i) == VaultNormalize(DestI(i))

\* C5 (directory-before-file ordering): when createBinary is called every
\* ancestor of the destination is a directory, and a file entry whose ancestors
\* are named by no directory entry still gets them: after a completed call that
\* no failure struck, a file entry whose destination is not held by a folder
\* and none of whose ancestors is held by a file is in the vault with every
\* ancestor a directory -- also on a storage that creates no intermediate
\* segments by itself.
C5_DirectoryBeforeFile ==
    /\ pc = "write" =>
          \A a \in AncestorsOf(VaultNormalize(pendPath)) : IsFolder(vault, a)
    /\ (Completed /\ runFaults = 0) =>
          \A i \in Entries :
              (/\ FileEntry(i)
               /\ ~IsFolder(vault, VaultDestI(i))
               /\ \A a \in AncestorsOf(VaultDestI(i)) : ~IsFile(vault, a))
              => /\ IsFile(vault, VaultDestI(i))
                 /\ \A a \in AncestorsOf(VaultDestI(i)) : IsFolder(vault, a)

\* A folder lay at the destination of the file entry i when the call started.
DirOccupied(i) == Iterating /\ FileEntry(i) /\ IsFolder(vaultAtStart, CheckPathI(i))

\* What the vault held beneath the folder p when the call started is as it was.
SubtreeKept(p) ==
    \A q \in DOMAIN vaultAtStart :
        StartsWith(q, p) => (Exists(vault, q) /\ vault[q] = vaultAtStart[q])

\* C6 (conflict reporting): a file entry whose destination is held by a
\* directory gets exactly one write-conflict Notice, naming that path, and no
\* other Notice; createBinary is not called for it, it is not counted, the
\* directory and what it held stay as they were, and the loop goes on.
C6_ConflictReporting ==
    \A i \in Entries :
        DirOccupied(i) =>
            /\ SubtreeKept(CheckPathI(i))
            /\ { k \in 1..Len(calls) : calls[k].entry = i /\ calls[k].op # "get" } = {}
            /\ i \notin Written
            /\ Done(i) =>
                /\ entryOutcome[i] = "conflict"
                /\ Cardinality(NoticesFor(i, "folderAtFilePath")) = 1
                /\ \A k \in 1..Len(notices) :
                      notices[k].entry = i =>
                          (notices[k].kind = "folderAtFilePath" /\ notices[k].path = DestI(i))
                /\ outcome \in {"none", "completed"}
                /\ pc # "done" => idx > i

C6_Witness ==
    /\ Completed
    /\ \E i \in Entries :
        /\ DirOccupied(i)
        /\ entryOutcome[i] = "conflict"
        /\ i < Len(archive) /\ entryOutcome[i + 1] = "written"

FailedTags == {"dirFail", "parentFail", "conflict", "writeError"}

\* C7 (one bad entry never aborts the archive): once the loop has begun, a
\* file where a directory is needed, a directory where a file is needed or a
\* createBinary error never ends the call: the entries after it are processed
\* and the call ends with the success summary.
C7_BadEntryNeverAborts ==
    /\ Iterating => outcome \in {"none", "completed"}
    /\ (Iterating /\ pc # "done") => (idx = Len(entryOutcome) + 1 /\ idx <= Len(archive) + 1)
    /\ (Iterating /\ pc = "done") =>
          /\ Len(entryOutcome) = Len(archive)
          /\ notices[Len(notices)].kind = "success"
          /\ Cardinality({ k \in 1..Len(notices) : notices[k].kind = "success" }) = 1

C7_Witness ==
    /\ Completed
    /\ \E i \in Entries :
        /\ entryOutcome[i] \in FailedTags
        /\ i < Len(archive) /\ entryOutcome[i + 1] = "written"

\* C8 (Aborted only before iteration): the call never ends in the outer catch
\* once the loop over the entries has begun.
C8_AbortedOnlyBeforeIteration ==
    (pc = "done" /\ outcome = "aborted") => (~Iterating /\ Written = {})

\* JSZip.loadAsync rejected in the current call.
DecodeRejected ==
    \E k \in 1..Len(notices) : notices[k].kind = "unzipFailed" /\ notices[k].entry = 0

NoSuccessNotice == \A k \in 1..Len(notices) : notices[k].kind # "success"

\* C9 as claimed (decode failure writes nothing): after loadAsync rejected the
\* vault is as it was when the call started, the target folder included, and
\* no success summary is shown.
C9_DecodeFailureWritesNothing ==
    DecodeRejected => (vault = vaultAtStart /\ NoSuccessNotice)

\* The target folder and the ancestors it needs.
TargetChain == {VaultNormalize(targetFolder)} \cup AncestorsOf(VaultNormalize(targetFolder))

\* Since the call started nothing was changed and nothing added but
\* directories among ps.
OnlyAdded(ps) ==
    /\ \A q \in DOMAIN vaultAtStart : Exists(vault, q) /\ vault[q] = vaultAtStart[q]
    /\ \A q \in DOMAIN vault \ DOMAIN vaultAtStart : q \in ps /\ IsFolder(vault, q)

\* C9 as amended: after loadAsync rejected no entry has been processed, no file
\* and no directory other than the target folder has been created, and no
\* success summary is shown.
C9_DecodeFailureWritesNoEntry ==
    DecodeRejected =>
        /\ pc = "done" /\ outcome = "aborted"
        /\ entryOutcome = <<>> /\ ~Iterating
        /\ OnlyAdded(TargetChain)
        /\ NoSuccessNotice

C9_Witness ==
    /\ DecodeRejected
    /\ pc = "done"
    /\ vault # vaultAtStart
    /\ Len(archive) > 0

\* requestUrl failed in the current call.
FetchFailed == \E k \in 1..Len(notices) : notices[k].kind = "downloadFailed"

\* C10 (fetch failure is a hard stop): after requestUrl failed the call has
\* ended, nothing was decoded, no entry was processed, no file was created and
\* no success summary is shown.
C10_FetchFailureStops ==
    FetchFailed =>
        /\ pc = "done" /\ outcome = "fetchFailed"
        /\ \A k \in 1..Len(notices) :
              notices[k].kind \notin {"downloadComplete", "unzipFailed", "success"}
        /\ entryOutcome = <<>> /\ ~Iterating
        /\ { k \in 1..Len(calls) : calls[k].op = "createBinary" } = {}
        /\ OnlyAdded(TargetChain)

C10_Witness ==
    /\ FetchFailed
    /\ pc = "done"
    /\ Len(archive) > 0

\* The files the vault holds at paths that held nothing when the call started.
NewFiles == { p \in DOMAIN vault : IsFile(vault, p) /\ ~Exists(vaultAtStart, p) }

\* The number in the success Notice of the current call.
Reported == notices[Len(notices)].n

\* C11 (exact count): the number in the success summary of a completed call
\* is the number of files that are in the vault after the call and were not
\* before it; skipped, conflicting, failed and ignored entries and created
\* directories add nothing to it.
C11_ExactCount ==
    Completed =>
        /\ notices[Len(notices)].kind = "success"
        /\ Reported = Cardinality(NewFiles)
        /\ Reported = Cardinality(Written)

C11_Witness ==
    /\ Completed
    /\ Reported = 1
    /\ Len(archive) = 2
    /\ \E i \in Entries : entryOutcome[i] \in {"skipped", "conflict", "writeError", "dirOk"}
    /\ \E p \in DOMAIN vault : IsFolder(vault, p) /\ ~Exists(vaultAtStart, p)

\* The Notices the current call has shown for its entries, the summary aside.
EntryNotices ==
    { k \in 1..Len(notices) : notices[k].entry \in Entries /\ notices[k].kind # "success" }

\* C12 (single end-of-run report): a call shows nothing about an entry while
\* it runs; what it has to say is in one summary, shown once, at the end of a
\* completed call.
C12_SingleEndOfRunReport ==
    /\ EntryNotices = {}
    /\ Completed =>
          /\ notices[Len(notices)].kind = "success"
          /\ Cardinality({ k \in 1..Len(notices) : notices[k].kind = "success" }) = 1

\* The Notices a call shows when it gives up.
FailureKinds == {"invalidUrl", "targetAbort", "downloadFailed", "unzipFailed"}

SuccessShown == { k \in 1..Len(notices) : notices[k].kind = "success" }
FailureShown == { k \in 1..Len(notices) : notices[k].kind \in FailureKinds }

\* The terminal state Completed: one summary, shown last, after every entry.
EndedCompleted ==
    /\ Cardinality(SuccessShown) = 1
    /\ notices[Len(notices)].kind = "success"
    /\ Len(entryOutcome) = Len(archive)
    /\ (\A i \in Entries : entryOutcome[i] = "ignored") => Reported = 0

\* The terminal state Aborted: a failure is shown, last, and no summary.
EndedAborted ==
    /\ Cardinality(FailureShown) = 1
    /\ notices[Len(notices)].kind \in FailureKinds
    /\ SuccessShown = {}

\* C13 (termination): every call of downloadAndUnzip ends, and it ends either
\* Completed (the summary is shown after the last entry, with the count 0 for
\* an archive that is empty or holds ignored entries only) or Aborted (a
\* failure is shown and no summary), never both and never neither.
C13_OneTerminalState ==
    /\ [](pc = "done" => ((EndedCompleted /\ FailureShown = {}) \/ EndedAborted))
    /\ [](pc # "idle" => <>(pc = "done"))

C13_Witness ==
    /\ pc = "done" /\ EndedCompleted
    /\ Len(archive) >= 1
    /\ \A i \in Entries : entryOutcome[i] = "ignored"
    /\ prev.ran /\ prev.outcome \notin {"none", "completed"}

\* ensureFolderExists(targetFolderPath) returned null in the current call.
TargetFailed == \E k \in 1..Len(notices) : notices[k].kind = "targetAbort"

\* C14 (unusable target folder): when ensureFolderExists fails for the target
\* folder -- a file holds its path, or createFolder fails -- the call ends
\* there: requestUrl is not called, nothing is decoded, no entry is processed
\* and the vault is as it was when the call started.
C14_UnusableTargetAborts ==
    TargetFailed =>
        /\ pc = "done" /\ outcome = "noTarget"
        /\ \A k \in 1..Len(notices) :
              notices[k].kind \notin {"downloading", "downloadComplete", "downloadFailed",
                                      "unzipFailed", "success"}
        /\ entryOutcome = <<>> /\ ~Iterating
        /\ { k \in 1..Len(calls) : calls[k].op = "createBinary" } = {}
        /\ vault = vaultAtStart

C14_Witness ==
    /\ TargetFailed
    /\ pc = "done"
    /\ Len(archive) > 0
    /\ \E k \in 1..Len(calls) : calls[k].op = "createFolder"

\* The vault path q lies beneath the path p.
Beneath(q, p) == StartsWith(q, p \o <<SLASH>>)

\* The entry i needs a directory at p: p is its own place (a directory entry)
\* or an ancestor of its destination.
NeedsDirAt(i, p) ==
    /\ ~IsIgnored(archive[i].path)
    /\ \/ Beneath(VaultDestI(i), p)
       \/ archive[i].dir /\ VaultDestI(i) = p

\* The paths a file held when the call started and the archive needs as
\* directories.
DirConflicts ==
    { p \in DOMAIN vaultAtStart :
        IsFile(vaultAtStart, p) /\ \E i \in Entries : NeedsDirAt(i, p) }

\* Nothing stands in the way of the file entry j: its destination was free
\* when the call started, no file held an ancestor of it, and no other entry
\* of the archive needs its destination as a directory or puts a file at one
\* of its ancestors.
Clear(j) ==
    /\ FileEntry(j)
    /\ ~Exists(vaultAtStart, VaultDestI(j))
    /\ \A a \in AncestorsOf(VaultDestI(j)) : ~IsFile(vaultAtStart, a)
    /\ \A k \in Entries \ {j} :
          /\ ~NeedsDirAt(k, VaultDestI(j))
          /\ ~(FileEntry(k) /\ NeedsDirAt(j, VaultDestI(k)))

\* C15 (directory-conflict subtree skip): when a file holds a path P the
\* archive needs as a directory, the call creates nothing beneath P at any
\* depth, calls createBinary for no entry beneath P, leaves the file at P as it
\* was, and writes the entries whose free destinations lie outside P.
C15_SubtreeSkip ==
    Iterating =>
        /\ \A p \in DirConflicts :
              /\ IsFile(vault, p) /\ vault[p] = vaultAtStart[p]
              /\ \A q \in DOMAIN vault : ~Beneath(q, p)
              /\ \A i \in Entries :
                    NeedsDirAt(i, p) =>
                        /\ CallsFor(i, "createBinary") = {}
                        /\ Done(i) => entryOutcome[i] \in {"dirFail", "parentFail"}
        /\ (Completed /\ runFaults = 0) =>
              \A j \in Entries :
                  Clear(j)
                  => /\ entryOutcome[j] = "written"
                     /\ IsFile(vault, VaultDestI(j))
                     /\ vault[VaultDestI(j)].data = archive[j].data

C15_Witness ==
    /\ Completed
    /\ \E p \in DirConflicts : \E i, j \in Entries :
          /\ NeedsDirAt(i, p)
          /\ ParentOf(VaultDestI(i)) # p
          /\ entryOutcome[i] = "parentFail"
          /\ ~NeedsDirAt(j, p)
          /\ entryOutcome[j] = "written"

\* The file entries of the archive whose destination is the vault path d.
Colliding(d) == { i \in Entries : FileEntry(i) /\ VaultDestI(i) = d }

\* The destinations that two file entries or more share and that held nothing
\* when the call started.
SharedFree ==
    { d \in { VaultDestI(i) : i \in { e \in Entries : FileEntry(e) } } :
        Cardinality(Colliding(d)) >= 2 /\ ~Exists(vaultAtStart, d) }

Last(K) == CHOOSE i \in K : \A j \in K : j <= i
First(K) == CHOOSE i \in K : \A j \in K : i <= j

\* A file entry whose destination held a file when the call started leaves
\* that file as it was.
FirstWinsAgainstOld ==
    \A i \in Entries :
        (Iterating /\ FileEntry(i) /\ IsFile(vaultAtStart, VaultDestI(i)))
            => (IsFile(vault, VaultDestI(i))
                /\ vault[VaultDestI(i)] = vaultAtStart[VaultDestI(i)])

\* C16 as claimed (colliding entries): after a completed call the file at a
\* destination that several file entries share and that was free before holds
\* the data of the last of them in archive order, and an entry colliding with
\* a file that was there before leaves it as it was.
C16_LastWriteWins ==
    /\ FirstWinsAgainstOld
    /\ Completed =>
          \A d \in SharedFree :
              IsFile(vault, d) => vault[d].data = archive[Last(Colliding(d))].data

\* C16 as amended: of the file entries that share a destination that was free
\* before, one at most is written, the first whose createBinary succeeds (the
\* first in archive order when no call fails); the file holds its data, every
\* later one is skipped at the existence check without a createBinary call,
\* and an entry colliding with a file that was there before leaves it as it
\* was.
C16_FirstWriteWins ==
    /\ FirstWinsAgainstOld
    /\ Iterating =>
          \A d \in SharedFree :
              /\ Cardinality(Colliding(d) \cap Written) <= 1
              /\ IsFile(vault, d) =>
                    \E i \in Colliding(d) \cap Written :
                        /\ vault[d].data = archive[i].data
                        /\ \A j \in Colliding(d) :
                              j > i => /\ CallsFor(j, "createBinary") = {}
                                       /\ Done(j) => entryOutcome[j] = "skipped"
              /\ (Completed /\ runFaults = 0 /\ IsFile(vault, d)) =>
                    First(Colliding(d)) \in Written

C16_Witness ==
    /\ Completed
    /\ \E d \in SharedFree :
          /\ IsFile(vault, d)
          /\ vault[d].data = archive[First(Colliding(d))].data
          /\ vault[d].data # archive[Last(Colliding(d))].data
          /\ entryOutcome[Last(Colliding(d))] = "skipped"

\* The vault calls the current call has made for its entries.
EntryCalls == { k \in 1..Len(calls) : calls[k].entry \in Entries }

\* C17 (sequential processing in archive order): the vault calls of a call
\* come entry by entry, those of one entry all before those of the next, and
\* the entries come in the order of the archive's records.
C17_ArchiveOrder ==
    \A k, l \in EntryCalls :
        k < l => archive[calls[k].entry].rec <= archive[calls[l].entry].rec

\* this.app.vault.createFolder has been called and has not settled.
CreatePending == pc \in {"mkTarget", "mkDir", "mkParent"}

\* The directory the entry i names, as ensureFolderExists looks it up.
DirOfI(i) == StripEnds(DirPath(DestI(i)))

\* C18 (frame of ensureFolderExists): createFolder is called only for a path
\* that holds nothing; for the root there is no lookup and no creation call,
\* for a path that is a directory no creation call (a second call finds it and
\* creates nothing), and for a path a file holds no creation call, a failure
\* as the result, and the file is as it was.
C18_EnsureFolderFrame ==
    /\ CreatePending =>
          /\ pendPath \notin {ROOT, EMPTY}
          /\ KindAt(vault, pendPath) = "none"
    /\ \A k \in 1..Len(calls) :
          calls[k].op = "createFolder" =>
              /\ k > 1
              /\ calls[k - 1] = [calls[k] EXCEPT !.op = "get"]
              /\ KindAt(vaultAtStart, calls[k].path) # "file"
    /\ (targetFolder = ROOT /\ pc # "idle") =>
          /\ { k \in 1..Len(calls) : calls[k].entry = 0 } = {}
          /\ outcome # "noTarget"
    /\ \A i \in Entries :
          (Iterating /\ archive[i].dir /\ ~IsIgnored(archive[i].path)) =>
              /\ IsFolder(vaultAtStart, DirOfI(i)) =>
                    /\ CallsFor(i, "createFolder") = {}
                    /\ Done(i) => entryOutcome[i] \in {"dirOk", "dirMemo"}
              /\ IsFile(vaultAtStart, DirOfI(i)) =>
                    /\ CallsFor(i, "createFolder") = {}
                    /\ Done(i) => entryOutcome[i] = "dirFail"
                    /\ vault[DirOfI(i)] = vaultAtStart[DirOfI(i)]
    /\ \A k \in 1..Len(notices) :
          notices[k].kind = "fileAtFolderPath" => IsFile(vault, notices[k].path)

C18_Witness ==
    /\ Completed
    /\ targetFolder = ROOT
    /\ vault = vaultAtStart
    /\ \E i \in Entries :
          /\ archive[i].dir /\ IsFolder(vaultAtStart, DirOfI(i)) /\ DirOfI(i) # ROOT
          /\ entryOutcome[i] = "dirOk"
          /\ CallsFor(i, "get") # {}
          /\ prev.ran /\ ~Exists(prev.start, DirOfI(i))

\* createBinary was called for the entry i and rejected with "File already
\* exists.": the destination came to be taken after the existence check.
WriteRaced(i) == Done(i) /\ entryOutcome[i] = "raceSkip"

\* The Notices that report an entry-level failure.
WarningKinds ==
    {"fileAtFolderPath", "errorCreatingFolder", "folderAtFilePath", "errorCreatingFile"}

\* C19 (a write race is a skip): an entry whose createBinary fails because the
\* destination came to exist after the existence check is skipped: no Notice
\* reports a failure for it, it is not counted, what is at the destination stays as the
\* other writer left it, and the loop goes on to the next entry.
C19_WriteRaceSkips ==
    \A i \in Entries :
        WriteRaced(i) =>
            /\ \A k \in 1..Len(notices) :
                  notices[k].entry = i => notices[k].kind \notin WarningKinds
            /\ i \notin Written
            /\ fileCount = Cardinality(Written)
            /\ Exists(vault, VaultDestI(i))
            /\ IsFile(vault, VaultDestI(i)) => vault[VaultDestI(i)].data = OtherData
            /\ outcome \in {"none", "completed"}
            /\ pc # "done" => idx > i
            /\ pc = "done" => (Len(entryOutcome) = Len(archive)
                                /\ notices[Len(notices)].kind = "success")

C19_Witness ==
    /\ Completed
    /\ \E i \in Entries :
          /\ WriteRaced(i)
          /\ IsFile(vault, VaultDestI(i)) /\ vault[VaultDestI(i)].data # archive[i].data
          /\ i < Len(archive) /\ entryOutcome[i + 1] = "written"
          /\ Reported = 1

\* The last branch tag recorded.
LastTag(eo) == eo[Len(eo)]

ErrorNotices(ns) == { k \in 1..Len(ns) : ns[k].kind = "errorCreatingFolder" }

\* The step in which an awaited createFolder settles and ensureFolderExists
\* returns: with a directory at the path then (created by the call, or found
\* by the re-check after the call failed) the result is a success (no error
\* Notice, the caller records the path and goes on to write what needs the
\* directory); without one it is a failure with its Notice.
EnsureReturns ==
    (CreatePending /\ pc' # pc) =>
        IF KindAt(vault', pendPath) = "folder"
        THEN /\ ErrorNotices(notices') = ErrorNotices(notices)
             /\ pc = "mkTarget" => pc' = "download"
             /\ pc = "mkDir" =>
                   (pendPath \in folderPathsCreated' /\ LastTag(entryOutcome') = "dirOk")
             /\ pc = "mkParent" =>
                   /\ pendPath \in folderPathsCreated'
                   /\ IF KindAt(vault', CheckPathI(idx)) = "none"
                      THEN pc' = "write" /\ pendPath' = DestI(idx)
                      ELSE LastTag(entryOutcome') \in {"skipped", "conflict"}
        ELSE /\ ErrorNotices(notices') # ErrorNotices(notices)
             /\ vault' = vault
             /\ folderPathsCreated' = folderPathsCreated
             /\ pc = "mkTarget" => (pc' = "done" /\ outcome' = "noTarget")
             /\ pc = "mkDir" => LastTag(entryOutcome') = "dirFail"
             /\ pc = "mkParent" => LastTag(entryOutcome') = "parentFail"

\* C20 (a directory creation race is a success): when createFolder fails in
\* ensureFolderExists and the re-check finds a directory at the path, the
\* directory is returned, the caller records the path as created and the
\* entries that need it are written; only when the re-check finds no
\* directory is the result a failure.
C20_FolderRaceSucceeds == [][EnsureReturns]_vars

\* createFolder was called for the entry i, failed, and the re-check found the
\* directory.
FolderRaced(i) ==
    /\ CallsFor(i, "createFolder") # {}
    /\ NoticesFor(i, "createdFolder") = {}
    /\ NoticesFor(i, "errorCreatingFolder") = {}
    /\ Done(i)

C20_Witness ==
    /\ Completed
    /\ \E i \in Entries :
          /\ FolderRaced(i)
          /\ FileEntry(i)
          /\ entryOutcome[i] = "written"
          /\ ParentPath(DestI(i)) \in folderPathsCreated
          /\ IsFile(vault, VaultDestI(i)) /\ vault[VaultDestI(i)].data = archive[i].data

\* The vault calls ensureFolderExists has made for the entry i: its lookups
\* and its createFolder calls (the existence check of a file entry's own
\* destination is not among them).
EnsureCalls(i) ==
    { k \in 1..Len(calls) :
        /\ calls[k].entry = i
        /\ \/ calls[k].op = "createFolder"
           \/ calls[k].op = "get" /\ ~(FileEntry(i) /\ calls[k].path = CheckPathI(i)) }

\* ensureFolderExists confirmed or created the directory path p for the entry i.
ConfirmedBy(i, p) ==
    /\ Done(i)
    /\ entryOutcome[i] \notin {"dirFail", "parentFail"}
    /\ \E k \in EnsureCalls(i) : calls[k].path = p

\* C21 (directory memoization): the set of confirmed directories is empty
\* when the loop of a call starts, and once a directory path was confirmed or
\* created for an entry, no later entry of the call makes ensureFolderExists
\* look that path up or call createFolder for it again.
C21_DirectoryMemoization ==
    /\ (pc \notin {"idle", "done"} /\ entryOutcome = <<>> /\ pc \notin {"mkDir", "mkParent", "write"})
          => folderPathsCreated = {}
    /\ \A i, j \in Entries :
          i < j => \A k \in EnsureCalls(i) :
                      ConfirmedBy(i, calls[k].path) =>
                          \A l \in EnsureCalls(j) : calls[l].path # calls[k].path

\* The relative path of an entry name with its separators normalised.
RelNorm(name) == StripLeading(CollapseSlashes(ReplaceBackslashes(name)))

\* The path of the target folder joined with a relative path.
JoinTarget(rel) ==
    IF cleanTargetFolderPath = EMPTY THEN rel ELSE cleanTargetFolderPath \o <<SLASH>> \o rel

TopLevel(i) == \A n \in 1..Len(RelNorm(archive[i].path)) : RelNorm(archive[i].path)[n] # SLASH

\* C22 (destination path construction): the path handed to createBinary for a
\* file entry is the target folder's path, one separator and the normalised
\* relative path of the entry, the path looked up or created for a directory
\* entry is that without its trailing separator, and for the target "/" nothing
\* is prepended: the destination has no leading separator, and for a top-level
\* file ensureFolderExists is not called ("/" is never memoised, no vault call
\* is made for a parent).
C22_DestinationPath ==
    Iterating =>
        /\ \A k \in 1..Len(calls) :
              LET i == calls[k].entry
              IN  /\ (i >= 1 /\ calls[k].op = "createBinary")
                        => /\ calls[k].path = JoinTarget(RelNorm(archive[i].path))
                           /\ calls[k].path[1] # SLASH
                  /\ (i >= 1 /\ archive[i].dir)
                        => calls[k].path = StripTrailing(JoinTarget(RelNorm(archive[i].path)))
        /\ \A i \in Entries :
              (FileEntry(i) /\ TopLevel(i)) => EnsureCalls(i) = {}
        /\ ROOT \notin folderPathsCreated

\* C23 (the vault only grows): whatever step is taken -- of a first or a later
\* call, with a failing vault call or not, with another writer at work or not --
\* every path of the vault before the step is in the vault after it with the
\* same kind and, for a file, the same data.
C23_VaultOnlyGrows ==
    [][\A p \in DOMAIN vault : p \in DOMAIN vault' /\ vault'[p] = vault[p]]_vars

C23_Witness ==
    /\ Completed /\ runs = 2
    /\ DOMAIN prev.vault # {}
    /\ \E p \in DOMAIN vault : p \notin DOMAIN vaultAtStart
    /\ \E i \in Entries : entryOutcome[i] \in {"skipped", "conflict", "raceSkip"}

\* Two calls overlap: a second one was started while the first was in flight.
Overlapping == other # NoRun

\* The entries for which the call with the locals R created the file at p.
WroteAt(R, p) ==
    { i \in 1..Len(R.L.eo) :
        /\ R.L.eo[i] = "written"
        /\ VaultNormalize(NormalizedDestPath(R.clean, archive[i].path)) = p }

RunCompleted(R) == R.L.pc = "done" /\ R.L.outcome = "completed"

RunFailed(R) ==
    R.L.pc = "done" /\ R.L.outcome \in {"aborted", "noTarget", "fetchFailed"}

\* The number in the success Notice of the call with the locals R.
ReportedBy(R) == R.L.notices[Len(R.L.notices)].n

\* What can end a call early by itself: a failing vault, download or decode
\* call of its own, or a file holding the path of the target folder.
OwnFailure(R) ==
    R.runFaults > 0 \/ IsFile(vaultAtStart, StripEnds(targetFolder))

RelativeSegments(p) ==
    LET t == Len(Segments(cleanTargetFolderPath))
    IN  SubSeq(Segments(p), t + 1, Len(Segments(p)))

\* The paths the current call has added to the vault, the target folder aside.
CreatedByCall ==
    { p \in DOMAIN vault : ~Exists(vaultAtStart, p) /\ p # targetPath }

\* C25 (no metadata reaches the vault): no file or directory that a call adds
\* to the vault has, beneath the target folder, "__MACOSX" as its first segment
\* or ".DS_Store" as its last one, also for entry names written with
\* backslashes or with repeated or leading separators.
C25_NoMetadataInVault ==
    Iterating =>
        \A p \in CreatedByCall :
            LET rel == RelativeSegments(p)
            IN  rel # <<>> => /\ rel[1] # <<"__MACOSX">>
                              /\ rel[Len(rel)] # <<".DS_Store">>

====
